---- MODULE Spec2Model ----
(***************************************************************************)
(* Model of the getUniqueDomElements utilities.                            *)
(*                                                                         *)
(* The document is a tree of elements under the root <html> element.  An   *)
(* element is a record [tagName, attributes, children]; an element is      *)
(* identified by its path (the child indexes from the root).  A tag name   *)
(* is the sequence of its UTF-16 code units, so that Array.prototype.sort, *)
(* String.prototype.toLowerCase and localeCompare are computed on what     *)
(* they read.  Every public function is an operator on the document, and   *)
(* a call is an action that stores what the call returned or threw in ret. *)
(* kept is an outcome the caller holds on to while the page goes on, with   *)
(* the document as it was when the call was made.                          *)
(***************************************************************************)
EXTENDS Integers, Sequences, FiniteSets, TLC

VARIABLES doc, ret, kept

vars == <<doc, ret, kept>>

(* ------------------------------ bounds -------------------------------- *)

\* Elements below <html> (body included) in the structural specification.
MaxNodes == 4
\* Elements below <html> in the specification that also edits attributes.
MaxMetaNodes == 3
\* Attributes in the whole document in that specification.
MaxAttrs == 2
\* Elements below <html> in the specifications where the caller holds on to
\* an outcome.
MaxHeldNodes == 2

(* ------------------------------ labels -------------------------------- *)

TagHTML == <<72, 84, 77, 76>>   \* "HTML"
TagBODY == <<66, 79, 68, 89>>   \* "BODY"
TagB == <<66>>                  \* "B", an HTML element; a prefix of "BODY"
TagLowerB == <<98>>             \* "b", an element of another namespace (its case is kept)

Tags == {TagBODY, TagB, TagLowerB}
\* The tags of the elements added in the specification that edits attributes.
MetaTags == {TagBODY, TagB}

\* An attribute is <<name, value>>.  The value of class is its list of
\* white-space separated tokens.
AttrNames == {"class"}
AttrValues(name) == {<<"a">>, <<"b", "b">>}

Element(tag, attrs, kids) ==
  [tagName |-> tag, attributes |-> attrs, children |-> kids]

(* --------------------------- tree navigation -------------------------- *)

RECURSIVE NodeAt(_, _)
\* The element at path p below el.
NodeAt(el, p) ==
  IF p = <<>> THEN el ELSE NodeAt(el.children[Head(p)], Tail(p))

RECURSIVE TreeOrder(_, _)
RECURSIVE TreeOrderOfChildren(_, _, _)
\* The paths of el (at path base) and of its descendants, in tree order.
TreeOrder(el, base) ==
  <<base>> \o TreeOrderOfChildren(el, base, 1)
TreeOrderOfChildren(el, base, i) ==
  IF i > Len(el.children) THEN <<>>
  ELSE TreeOrder(el.children[i], Append(base, i))
         \o TreeOrderOfChildren(el, base, i + 1)

\* Every element of the document, root first.
AllPaths == TreeOrder(doc, <<>>)

Range(s) == {s[i] : i \in DOMAIN s}

RECURSIVE ReplaceAt(_, _, _)
\* el with the element at path p replaced by new.
ReplaceAt(el, p, new) ==
  IF p = <<>> THEN new
  ELSE [el EXCEPT !.children =
          [@ EXCEPT ![Head(p)] = ReplaceAt(@, Tail(p), new)]]

RemoveIndex(s, i) == SubSeq(s, 1, i - 1) \o SubSeq(s, i + 1, Len(s))

Front(s) == SubSeq(s, 1, Len(s) - 1)
Last(s) == s[Len(s)]

RECURSIVE SumSeq(_)
SumSeq(s) == IF s = <<>> THEN 0 ELSE Head(s) + SumSeq(Tail(s))

NumAttrs == SumSeq([i \in DOMAIN AllPaths |-> Len(NodeAt(doc, AllPaths[i]).attributes)])

(* ------------------------------ references ---------------------------- *)

\* A value that is an element or null.
NullRef == [isNull |-> TRUE, path |-> <<>>]
Ref(p) == [isNull |-> FALSE, path |-> p]

\* document.body: the first child of <html> that is a body element, or null.
DocumentBody ==
  LET idx == {i \in DOMAIN doc.children : doc.children[i].tagName = TagBODY}
  IN IF idx = {} THEN NullRef
     ELSE Ref(<<CHOOSE i \in idx : \A j \in idx : i <= j>>)

\* container.querySelectorAll('*'): the descendants of the element at p, in
\* tree order, the element itself excluded.
QuerySelectorAll(p) == Tail(TreeOrder(NodeAt(doc, p), p))

\* document.body?.querySelectorAll('*') || []
BodyElements ==
  IF DocumentBody.isNull THEN <<>> ELSE QuerySelectorAll(DocumentBody.path)

TagNameOf(p) == NodeAt(doc, p).tagName

(* ------------------------------ strings ------------------------------- *)

\* a < b as the default comparison of Array.prototype.sort compares two
\* strings: by UTF-16 code units, a proper prefix first.
CodeUnitLess(a, b) ==
  \E k \in 1..(Len(b)) :
    /\ \A j \in 1..(k - 1) : j <= Len(a) /\ a[j] = b[j]
    /\ \/ k = Len(a) + 1
       \/ k <= Len(a) /\ a[k] < b[k]

\* String.prototype.toLowerCase on ASCII: A..Z become a..z.
ToLowerCase(s) ==
  [i \in DOMAIN s |-> IF s[i] >= 65 /\ s[i] <= 90 THEN s[i] + 32 ELSE s[i]]

\* The collation keys of localeCompare for ASCII letters and digits: letters
\* compare without case first (primary), lower case before upper case last.
PrimaryKey(s) == ToLowerCase(s)
CaseKey(s) == [i \in DOMAIN s |-> IF s[i] >= 65 /\ s[i] <= 90 THEN 1 ELSE 0]

\* a.localeCompare(b) < 0
LocaleLess(a, b) ==
  \/ CodeUnitLess(PrimaryKey(a), PrimaryKey(b))
  \/ /\ PrimaryKey(a) = PrimaryKey(b)
     /\ CodeUnitLess(CaseKey(a), CaseKey(b))

(* ------------------------------ arrays -------------------------------- *)

RECURSIVE UniqFrom(_, _)
UniqFrom(s, seen) ==
  IF s = <<>> THEN <<>>
  ELSE IF Head(s) \in seen THEN UniqFrom(Tail(s), seen)
  ELSE <<Head(s)>> \o UniqFrom(Tail(s), seen \cup {Head(s)})

\* [...new Set(s)]: the values of s in the order of their first occurrence.
Uniq(s) == UniqFrom(s, {})

\* x inserted into the sorted array s after every element that is not
\* greater than it (a stable insertion).
RECURSIVE InsertDefault(_, _)
InsertDefault(s, x) ==
  IF s = <<>> THEN <<x>>
  ELSE IF CodeUnitLess(x, Head(s)) THEN <<x>> \o s
  ELSE <<Head(s)>> \o InsertDefault(Tail(s), x)

RECURSIVE SortDefault(_)
\* array.sort() with no comparator
SortDefault(s) ==
  IF s = <<>> THEN <<>> ELSE InsertDefault(SortDefault(Front(s)), Last(s))

RECURSIVE InsertByTagName(_, _)
InsertByTagName(s, x) ==
  IF s = <<>> THEN <<x>>
  ELSE IF LocaleLess(x.tagName, Head(s).tagName) THEN <<x>> \o s
  ELSE <<Head(s)>> \o InsertByTagName(Tail(s), x)

RECURSIVE SortByTagName(_)
\* array.sort((a, b) => a.tagName.localeCompare(b.tagName)), a stable sort
SortByTagName(s) ==
  IF s = <<>> THEN <<>> ELSE InsertByTagName(SortByTagName(Front(s)), Last(s))

RECURSIVE InsertByCountUnstable(_, _)
\* An insertion that puts x before the entries of equal count: a sort that
\* reverses ties.
InsertByCountUnstable(s, x) ==
  IF s = <<>> THEN <<x>>
  ELSE IF Head(s)[2] - x[2] <= 0 THEN <<x>> \o s
  ELSE <<Head(s)>> \o InsertByCountUnstable(Tail(s), x)

RECURSIVE InsertByCount(_, _)
InsertByCount(s, x) ==
  IF s = <<>> THEN <<x>>
  ELSE IF Head(s)[2] - x[2] < 0 THEN <<x>> \o s
  ELSE <<Head(s)>> \o InsertByCount(Tail(s), x)

RECURSIVE InsertByCountAscending(_, _)
InsertByCountAscending(s, x) ==
  IF s = <<>> THEN <<x>>
  ELSE IF x[2] - Head(s)[2] < 0 THEN <<x>> \o s
  ELSE <<Head(s)>> \o InsertByCountAscending(Tail(s), x)

RECURSIVE SortByCountAscending(_)
\* entries.sort((a, b) => a[1] - b[1]): the comparator the other way round
SortByCountAscending(s) ==
  IF s = <<>> THEN <<>>
  ELSE InsertByCountAscending(SortByCountAscending(Front(s)), Last(s))

RECURSIVE SortByCount(_)
\* entries.sort((a, b) => b[1] - a[1]), a stable sort, greatest count first
SortByCount(s) ==
  IF s = <<>> THEN <<>> ELSE InsertByCount(SortByCount(Front(s)), Last(s))

\* null, where an array or an entry is expected
Null == <<>>

(* --------------------- OPTION 1: getUniqueDomElements ----------------- *)

TagNames(paths) == [i \in DOMAIN paths |-> TagNameOf(paths[i])]

\* A getUniqueDomElements that reads every element of the page, not only
\* those within body.
GetUniqueDomElementsOfPage ==
  SortDefault(Uniq(TagNames(Tail(AllPaths))))

GetUniqueDomElements ==
  LET bodyElements == BodyElements
      uniqueTagNames == Uniq(TagNames(bodyElements))
  IN SortDefault(uniqueTagNames)

(* ------------------ OPTION 2: getUniqueDomElementsRobust -------------- *)

\* How a call ends: it returns a value, or it throws an Error and there is
\* no value.
Returned(v) == [threw |-> FALSE, value |-> v]
Thrown(msg) == [threw |-> TRUE, error |-> msg]

\* options: hasContainer says whether the container property is supplied;
\* the three flags carry their value (the default where they are omitted).
Options(hasContainer, container, includeContainer, toLowerCase, sortResults) ==
  [hasContainer |-> hasContainer, container |-> container,
   includeContainer |-> includeContainer, toLowerCase |-> toLowerCase,
   sortResults |-> sortResults]

\* A destructuring that falls back to document.body for null as well.
ContainerOrBody(options) ==
  IF options.hasContainer /\ ~options.container.isNull
  THEN options.container ELSE DocumentBody

\* const { container = document.body, ... } = options
ContainerOf(options) ==
  IF options.hasContainer THEN options.container ELSE DocumentBody

CasedTagName(p, toLowerCase) ==
  IF toLowerCase THEN ToLowerCase(TagNameOf(p)) ELSE TagNameOf(p)

\* A robust variant that converts the case of the descendants' tag names and
\* forgets to convert the container's.
GetUniqueDomElementsRobustContainerCase(options) ==
  LET container == ContainerOf(options) IN
  IF container.isNull THEN Thrown("Container element not found")
  ELSE
    LET elements == QuerySelectorAll(container.path)
        mapped == [i \in DOMAIN elements |->
                     CasedTagName(elements[i], options.toLowerCase)]
        tagNames == IF options.includeContainer
                    THEN Append(mapped, TagNameOf(container.path))
                    ELSE mapped
        unique == Uniq(tagNames)
    IN Returned(IF options.sortResults THEN SortDefault(unique) ELSE unique)

\* A robust variant that adds the container's tag name after the duplicates
\* have been removed.
GetUniqueDomElementsRobustPushLate(options) ==
  LET container == ContainerOf(options) IN
  IF container.isNull THEN Thrown("Container element not found")
  ELSE
    LET elements == QuerySelectorAll(container.path)
        mapped == [i \in DOMAIN elements |->
                     CasedTagName(elements[i], options.toLowerCase)]
        unique == IF options.includeContainer
                  THEN Append(Uniq(mapped),
                              CasedTagName(container.path, options.toLowerCase))
                  ELSE Uniq(mapped)
    IN Returned(IF options.sortResults THEN SortDefault(unique) ELSE unique)

GetUniqueDomElementsRobust(options) ==
  LET container == ContainerOf(options) IN
  IF container.isNull THEN Thrown("Container element not found")
  ELSE
    LET elements == QuerySelectorAll(container.path)
        mapped == [i \in DOMAIN elements |->
                     CasedTagName(elements[i], options.toLowerCase)]
        tagNames == IF options.includeContainer
                    THEN Append(mapped, CasedTagName(container.path, options.toLowerCase))
                    ELSE mapped
        unique == Uniq(tagNames)
    IN Returned(IF options.sortResults THEN SortDefault(unique) ELSE unique)

(* --------------- OPTION 3: getUniqueDomElementsWithMetadata ----------- *)

RECURSIVE AttributesObject(_)
\* [...element.attributes].reduce((acc, attr) => { acc[attr.name] = attr.value; ... }, {})
AttributesObject(attrs) ==
  IF attrs = <<>> THEN [n \in {} |-> <<>>]
  ELSE LET acc == AttributesObject(Front(attrs))
           attr == Last(attrs)
       IN [n \in (DOMAIN acc) \cup {attr[1]} |->
             IF n = attr[1] THEN attr[2] ELSE acc[n]]

\* [...element.classList]: the tokens of the class attribute, each once.
ClassList(el) ==
  LET idx == {i \in DOMAIN el.attributes : el.attributes[i][1] = "class"}
  IN IF idx = {} THEN <<>>
     ELSE Uniq(el.attributes[CHOOSE i \in idx : TRUE][2])

IndexOfTag(map, tagName) ==
  LET idx == {i \in DOMAIN map : map[i].tagName = tagName}
  IN IF idx = {} THEN 0 ELSE CHOOSE i \in idx : TRUE

\* A turn that captures the instance data at every occurrence of a tag, so
\* that the record ends with those of the last one.
MetadataStepLast(map, p) ==
  LET tagName == TagNameOf(p)
      element == NodeAt(doc, p)
      k == IndexOfTag(map, tagName)
      fresh == [tagName |-> tagName,
                count |-> IF k = 0 THEN 1 ELSE map[k].count + 1,
                firstInstance |-> Ref(p),
                firstInstanceAttributes |-> AttributesObject(element.attributes),
                firstInstanceClasses |-> ClassList(element)]
  IN IF k = 0 THEN Append(map, fresh) ELSE [map EXCEPT ![k] = fresh]

\* The live collections of an element: element.classList and
\* element.attributes themselves, which show the element as it is when read.
ClassListView(p) == [view |-> "classList", of |-> p]
AttributesView(p) == [view |-> "attributes", of |-> p]

\* A turn that stores element.classList and element.attributes as they are,
\* with no copy made.
MetadataStepLive(map, p) ==
  LET tagName == TagNameOf(p)
      withTag == IF IndexOfTag(map, tagName) = 0
                 THEN Append(map,
                        [tagName |-> tagName,
                         count |-> 0,
                         firstInstance |-> Ref(p),
                         firstInstanceAttributes |-> AttributesView(p),
                         firstInstanceClasses |-> ClassListView(p)])
                 ELSE map
      k == IndexOfTag(withTag, tagName)
  IN [withTag EXCEPT ![k].count = @ + 1]

\* One turn of the forEach over bodyElements.
MetadataStep(map, p) ==
  LET tagName == TagNameOf(p)
      element == NodeAt(doc, p)
      withTag == IF IndexOfTag(map, tagName) = 0
                 THEN Append(map,
                        [tagName |-> tagName,
                         count |-> 0,
                         firstInstance |-> Ref(p),
                         firstInstanceAttributes |-> AttributesObject(element.attributes),
                         firstInstanceClasses |-> ClassList(element)])
                 ELSE map
      k == IndexOfTag(withTag, tagName)
  IN [withTag EXCEPT ![k].count = @ + 1]

\* const elementMap = new Map(): made anew by every call
NewElementMap == <<>>

RECURSIVE ElementMap(_)
\* elementMap after the forEach over the elements: its values, in insertion order.
ElementMap(elements) ==
  IF elements = <<>> THEN NewElementMap
  ELSE MetadataStep(ElementMap(Front(elements)), Last(elements))

GetUniqueDomElementsWithMetadata(includeMetadata) ==
  LET elementMap == ElementMap(BodyElements) IN
  IF includeMetadata
  THEN SortByTagName(elementMap)
  ELSE SortDefault([i \in DOMAIN elementMap |-> elementMap[i].tagName])

(* ----------------------- analyzeDomStructure -------------------------- *)

RECURSIVE MaxOf(_)
MaxOf(s) ==
  IF s = <<>> THEN 0
  ELSE LET m == MaxOf(Tail(s)) IN IF Head(s) > m THEN Head(s) ELSE m

RECURSIVE CalculateDepthOfNodes(_, _)
\* A depth walk that counts the elements on the way down, the one it starts
\* from included, and not the links between them.
CalculateDepthOfNodes(element, currentDepth) ==
  LET below == [i \in DOMAIN element.children |->
                  CalculateDepthOfNodes(element.children[i], currentDepth + 1)]
      m == MaxOf(below)
  IN IF currentDepth + 1 > m THEN currentDepth + 1 ELSE m

RECURSIVE CalculateDepth(_, _)
\* maxDepth after calculateDepth(element, currentDepth), maxDepth being 0 before
CalculateDepth(element, currentDepth) ==
  LET below == [i \in DOMAIN element.children |->
                  CalculateDepth(element.children[i], currentDepth + 1)]
      m == MaxOf(below)
  IN IF currentDepth > m THEN currentDepth ELSE m

GetMaxNestingDepth ==
  IF DocumentBody.isNull THEN 0
  ELSE CalculateDepth(NodeAt(doc, DocumentBody.path), 0)

IndexOfKey(entries, key) ==
  LET idx == {i \in DOMAIN entries : entries[i][1] = key}
  IN IF idx = {} THEN 0 ELSE CHOOSE i \in idx : TRUE

\* A counting step that sets the count of a tag it has seen to 1 again.
CountStepReset(tagCounts, p) ==
  LET k == IndexOfKey(tagCounts, TagNameOf(p))
  IN IF k = 0 THEN Append(tagCounts, <<TagNameOf(p), 1>>)
     ELSE [tagCounts EXCEPT ![k] = <<@[1], 1>>]

\* tagCounts.set(el.tagName, (tagCounts.get(el.tagName) || 0) + 1)
CountStep(tagCounts, p) ==
  LET k == IndexOfKey(tagCounts, TagNameOf(p))
  IN IF k = 0 THEN Append(tagCounts, <<TagNameOf(p), 1>>)
     ELSE [tagCounts EXCEPT ![k] = <<@[1], @[2] + 1>>]

\* A tagCounts that lives outside the function and still holds the entries
\* of the analysis the caller holds the outcome of.
LeftoverTagCounts ==
  IF kept.held /\ kept.call.op = "analyzeDomStructure"
  THEN kept.call.outcome.value.elementFrequency ELSE <<>>

\* const tagCounts = new Map(): made anew by every call
NewTagCounts == <<>>

RECURSIVE TagCounts(_)
\* [...tagCounts.entries()] after the forEach: the entries in insertion order
TagCounts(elements) ==
  IF elements = <<>> THEN NewTagCounts
  ELSE CountStep(TagCounts(Front(elements)), Last(elements))

RECURSIVE ObjectFromEntries(_)
\* Object.fromEntries(entries): the own properties, in property order; a
\* later entry with the key of an earlier one overwrites its value in place.
ObjectFromEntries(entries) ==
  IF entries = <<>> THEN <<>>
  ELSE LET obj == ObjectFromEntries(Front(entries))
           e == Last(entries)
           k == IndexOfKey(obj, e[1])
       IN IF k = 0 THEN Append(obj, e) ELSE [obj EXCEPT ![k] = e]

\* An analysis whose frequency table is built from the Map as it was filled,
\* before the sort.
AnalyzeDomStructureUnsortedFrequency ==
  LET bodyElements == BodyElements
      tagCounts == TagCounts(bodyElements)
      sortedByCount == SortByCount(tagCounts)
  IN [totalElements |-> Len(bodyElements),
      uniqueElements |-> Len(tagCounts),
      mostCommon |-> IF sortedByCount = <<>> THEN Null ELSE sortedByCount[1],
      leastCommon |-> IF sortedByCount = <<>> THEN Null
                      ELSE sortedByCount[Len(sortedByCount)],
      elementFrequency |-> ObjectFromEntries(tagCounts),
      deepestNesting |-> GetMaxNestingDepth]

AnalyzeDomStructure ==
  LET bodyElements == BodyElements
      tagCounts == TagCounts(bodyElements)
      sortedByCount == SortByCount(tagCounts)
  IN [totalElements |-> Len(bodyElements),
      uniqueElements |-> Len(tagCounts),
      mostCommon |-> IF sortedByCount = <<>> THEN Null ELSE sortedByCount[1],
      leastCommon |-> IF sortedByCount = <<>> THEN Null
                      ELSE sortedByCount[Len(sortedByCount)],
      elementFrequency |-> ObjectFromEntries(sortedByCount),
      deepestNesting |-> GetMaxNestingDepth]

(* ------------------- reading an outcome that is held ------------------- *)

\* The element that was at path p when the held call was made, as it is now:
\* an element that is no longer in the document keeps what it had.
ElementNow(p) ==
  IF p \in Range(AllPaths) THEN NodeAt(doc, p) ELSE NodeAt(kept.at, p)

\* What the page reads in a property of a record it holds
\* (item.firstInstanceClasses.join(', ')): the value stored there, or for a
\* live collection what the element has now.
ReadProperty(v) ==
  LET then == Range(TreeOrder(kept.at, <<>>)) IN
  IF \E p \in then : v = ClassListView(p) THEN ClassList(ElementNow(v.of))
  ELSE IF \E p \in then : v = AttributesView(p)
  THEN AttributesObject(ElementNow(v.of).attributes)
  ELSE v

(* --------------- js/scripts.js: getUniqueDomElements ------------------- *)

\* undefined, which is no tag name (a tag name is never empty)
Undefined == <<>>

\* array.findIndex(predicate) for the predicate item === x, from 0; -1 when
\* no item is x.
FindIndex(array, x) ==
  LET idx == {i \in DOMAIN array : array[i] = x}
  IN IF idx = {} THEN -1
     ELSE (CHOOSE i \in idx : \A j \in idx : i <= j) - 1

\* array[i] for an index from 0: undefined outside the array.
ItemAt(array, i) ==
  IF i >= 0 /\ i < Len(array) THEN array[i + 1] ELSE Undefined

\* The function of js/scripts.js: the unique nodeNames of every element of
\* the page, from the place of "BODY" among them to the last.
ScriptsGetUniqueDomElements ==
  LET domArray == AllPaths
      domElementNames == TagNames(domArray)
      uniqueDomElements == Uniq(domElementNames)
      indexOfBodyElement == FindIndex(uniqueDomElements, TagBODY)
  IN [k \in 1..(Len(uniqueDomElements) - indexOfBodyElement) |->
        ItemAt(uniqueDomElements, indexOfBodyElement + k - 1)]

(* ------------------------------ state machine ------------------------- *)

NoCall == [op |-> "none"]

\* The caller holds no outcome.
NoKept == [held |-> FALSE]

\* What the caller holds once the document has been changed.
Edited(k) == IF k.held THEN [k EXCEPT !.edited = TRUE] ELSE k

Init ==
  /\ doc \in {Element(TagHTML, <<>>, <<>>),
              Element(TagHTML, <<>>, <<Element(TagBODY, <<>>, <<>>)>>)}
  /\ ret = NoCall
  /\ kept = NoKept

\* parent.appendChild(document.createElement(tag))
AppendChild(limit, tags) ==
  /\ ret = NoCall
  /\ LET paths == AllPaths IN
     /\ Len(paths) - 1 < limit
     /\ \E i \in DOMAIN paths, tag \in tags :
          LET parent == NodeAt(doc, paths[i])
          IN doc' = ReplaceAt(doc, paths[i],
                      [parent EXCEPT !.children = Append(@, Element(tag, <<>>, <<>>))])
  /\ ret' = NoCall
  /\ kept' = Edited(kept)

\* element.remove(), for any element but the root
RemoveElement ==
  /\ ret = NoCall
  /\ LET paths == AllPaths IN
     \E i \in DOMAIN paths :
       LET p == paths[i] IN
       /\ p # <<>>
       /\ LET parent == NodeAt(doc, Front(p))
          IN doc' = ReplaceAt(doc, Front(p),
                      [parent EXCEPT !.children = RemoveIndex(@, Last(p))])
  /\ ret' = NoCall
  /\ kept' = Edited(kept)

\* element.setAttribute(name, value): the value of an attribute the element
\* has is replaced in place, a new attribute comes last.
SetAttribute ==
  /\ ret = NoCall
  /\ LET paths == AllPaths
         room == NumAttrs < MaxAttrs
     IN \E i \in DOMAIN paths, name \in AttrNames :
          \E value \in AttrValues(name) :
            LET el == NodeAt(doc, paths[i])
                idx == {k \in DOMAIN el.attributes : el.attributes[k][1] = name}
                attrs == IF idx = {} THEN Append(el.attributes, <<name, value>>)
                         ELSE [el.attributes EXCEPT ![CHOOSE k \in idx : TRUE] =
                                 <<name, value>>]
            IN /\ idx = {} => room
               /\ attrs # el.attributes
               /\ doc' = ReplaceAt(doc, paths[i], [el EXCEPT !.attributes = attrs])
  /\ ret' = NoCall
  /\ kept' = Edited(kept)

\* element.removeAttribute(name)
RemoveAttribute ==
  /\ ret = NoCall
  /\ LET paths == AllPaths IN
     \E i \in DOMAIN paths :
       LET el == NodeAt(doc, paths[i])
       IN \E k \in DOMAIN el.attributes :
            doc' = ReplaceAt(doc, paths[i],
                     [el EXCEPT !.attributes = RemoveIndex(@, k)])
  /\ ret' = NoCall
  /\ kept' = Edited(kept)

\* The script is single threaded: a call runs to completion on the document
\* as it is, and its caller holds the outcome in ret until it drops it.
Call(op, args, result) ==
  /\ ret = NoCall
  /\ ret' = [op |-> op, args |-> args, outcome |-> result]
  /\ UNCHANGED <<doc, kept>>

CallGetUniqueDomElements ==
  Call("getUniqueDomElements", <<>>, Returned(GetUniqueDomElements))

\* The containers a caller can pass: null or any element of the document.
Containers == {NullRef} \cup {Ref(p) : p \in Range(AllPaths)}

AllOptions ==
  {Options(FALSE, NullRef, ic, lc, sr) : ic \in BOOLEAN, lc \in BOOLEAN, sr \in BOOLEAN}
    \cup {Options(TRUE, c, ic, lc, sr) :
            c \in Containers, ic \in BOOLEAN, lc \in BOOLEAN, sr \in BOOLEAN}

CallGetUniqueDomElementsRobust ==
  \E options \in AllOptions :
    Call("getUniqueDomElementsRobust", options, GetUniqueDomElementsRobust(options))

CallGetUniqueDomElementsWithMetadata ==
  \E includeMetadata \in BOOLEAN :
    Call("getUniqueDomElementsWithMetadata", includeMetadata,
         Returned(GetUniqueDomElementsWithMetadata(includeMetadata)))

CallAnalyzeDomStructure ==
  Call("analyzeDomStructure", <<>>, Returned(AnalyzeDomStructure))

CallScriptsGetUniqueDomElements ==
  Call("scripts.getUniqueDomElements", <<>>, Returned(ScriptsGetUniqueDomElements))

\* The caller is done with the outcome of its call.
Discard ==
  /\ ret # NoCall
  /\ ret' = NoCall
  /\ UNCHANGED <<doc, kept>>

\* The caller holds on to the outcome of its call (const metadata = ...),
\* in place of the one it held.
Keep ==
  /\ ret # NoCall
  /\ kept' = [held |-> TRUE, call |-> ret, at |-> doc, edited |-> FALSE]
  /\ ret' = NoCall
  /\ UNCHANGED doc

\* The options of a call that leaves the container to its default.
DefaultContainerOptions ==
  {Options(FALSE, NullRef, ic, lc, sr) : ic \in BOOLEAN, lc \in BOOLEAN, sr \in BOOLEAN}

CallGetUniqueDomElementsRobustOnBody ==
  \E options \in DefaultContainerOptions :
    Call("getUniqueDomElementsRobust", options, GetUniqueDomElementsRobust(options))

Next ==
  \/ Discard
  \/ AppendChild(MaxNodes, Tags)
  \/ RemoveElement
  \/ CallGetUniqueDomElements
  \/ CallGetUniqueDomElementsRobust
  \/ CallGetUniqueDomElementsWithMetadata
  \/ CallAnalyzeDomStructure
  \/ CallScriptsGetUniqueDomElements

NextMeta ==
  \/ Discard
  \/ AppendChild(MaxMetaNodes, MetaTags)
  \/ RemoveElement
  \/ SetAttribute
  \/ RemoveAttribute
  \/ CallGetUniqueDomElementsWithMetadata

SpecMeta == Init /\ [][NextMeta]_vars

\* The page calls the functions again and again, holds on to an outcome and
\* changes the document in between.
NextRepeat ==
  \/ Discard
  \/ Keep
  \/ AppendChild(MaxHeldNodes, MetaTags)
  \/ RemoveElement
  \/ CallGetUniqueDomElements
  \/ CallGetUniqueDomElementsRobustOnBody
  \/ CallGetUniqueDomElementsWithMetadata
  \/ CallAnalyzeDomStructure

SpecRepeat == Init /\ [][NextRepeat]_vars

\* The caller reads the outcome it holds after a change of the document,
\* before the next change.
HeldUnchanged == IF kept.held THEN ~kept.edited ELSE TRUE

\* The page takes the metadata, holds on to it and changes the document.
NextSnapshot ==
  \/ Discard
  \/ Keep
  \/ HeldUnchanged /\ AppendChild(MaxHeldNodes, MetaTags)
  \/ HeldUnchanged /\ RemoveElement
  \/ HeldUnchanged /\ SetAttribute
  \/ HeldUnchanged /\ RemoveAttribute
  \/ CallGetUniqueDomElementsWithMetadata

SpecSnapshot == Init /\ [][NextSnapshot]_vars

Spec == Init /\ [][Next]_vars

(* ====================== properties of the functions ==================== *)

\* The element at p is an ancestor of the element at q.
IsAncestor(p, q) ==
  /\ Len(p) < Len(q)
  /\ \A k \in 1..Len(p) : q[k] = p[k]

\* The descendants of body (none when the document has no body).
BodyDescendants ==
  IF DocumentBody.isNull THEN {}
  ELSE {q \in Range(AllPaths) : IsAncestor(DocumentBody.path, q)}

\* The element at p comes before the element at q in document order
\* (pre-order): it is an ancestor of it, or the two paths part at children of
\* one element, that of p being the earlier child.
Precedes(p, q) ==
  \/ IsAncestor(p, q)
  \/ \E k \in 1..Len(p) :
       /\ k <= Len(q)
       /\ \A j \in 1..(k - 1) : p[j] = q[j]
       /\ p[k] < q[k]

RECURSIVE StringBefore(_, _)
\* String a is before string b, code unit by code unit.
StringBefore(a, b) ==
  IF b = <<>> THEN FALSE
  ELSE IF a = <<>> THEN TRUE
  ELSE IF Head(a) # Head(b) THEN Head(a) < Head(b)
  ELSE StringBefore(Tail(a), Tail(b))

Ascending(s) == \A i, j \in DOMAIN s : i < j => StringBefore(s[i], s[j])

NoDuplicates(s) == \A i, j \in DOMAIN s : i # j => s[i] # s[j]

\* C1: getUniqueDomElements() returns exactly the distinct tagNames of the
\* descendants of document.body (body itself and everything outside body
\* excluded), each once, in ascending order of their code units.
C1_UniqueTagsOfBody ==
  ret.op = "getUniqueDomElements" =>
    /\ ~ret.outcome.threw
    /\ Range(ret.outcome.value) = {TagNameOf(q) : q \in BodyDescendants}
    /\ NoDuplicates(ret.outcome.value)
    /\ Ascending(ret.outcome.value)

\* C1 witness: a call on a body whose two labels are not in ascending order
\* in the document, while the page has a B outside body and none inside.
C1_Witness ==
  /\ ret.op = "getUniqueDomElements"
  /\ ret.outcome.value = <<TagBODY, TagLowerB>>
  /\ TagNames(BodyElements) = <<TagLowerB, TagBODY>>
  /\ \E q \in Range(AllPaths) : q \notin BodyDescendants /\ TagNameOf(q) = TagB

\* C2: with no body and the implicit default container every public
\* operation returns its empty result and none throws.
C2_EmptyDefaultNeverThrows ==
  (/\ DocumentBody.isNull
   /\ ret.op # "none"
   /\ ret.op = "getUniqueDomElementsRobust" => ~ret.args.hasContainer)
  => /\ ~ret.outcome.threw
     /\ ret.op \in {"getUniqueDomElements", "getUniqueDomElementsRobust",
                    "getUniqueDomElementsWithMetadata"}
          => ret.outcome.value = <<>>
     /\ ret.op = "analyzeDomStructure"
          => /\ ret.outcome.value.totalElements = 0
             /\ ret.outcome.value.uniqueElements = 0
             /\ ret.outcome.value.deepestNesting = 0

\* C3: getUniqueDomElementsRobust called with container explicitly null
\* throws the missing-container error and yields no value, whatever the
\* other options and the document.
C3_NullContainerThrows ==
  (/\ ret.op = "getUniqueDomElementsRobust"
   /\ ret.args.hasContainer
   /\ ret.args.container.isNull)
  => /\ ret.outcome.threw
     /\ ret.outcome.error = "Container element not found"
     /\ "value" \notin DOMAIN ret.outcome

\* C3 witness: such a call on a document that has a body with descendants,
\* with includeContainer set.
C3_Witness ==
  /\ ret.op = "getUniqueDomElementsRobust"
  /\ ret.args.hasContainer
  /\ ret.args.container.isNull
  /\ ret.args.includeContainer
  /\ BodyDescendants # {}
  /\ ret.outcome.threw

\* The number of descendants of body that carry the label.
Occurrences(label) ==
  Cardinality({q \in BodyDescendants : TagNameOf(q) = label})

BodyLabels == {TagNameOf(q) : q \in BodyDescendants}

\* The first descendant of body, in document order, that carries the label.
FirstWith(label) ==
  CHOOSE q \in BodyDescendants :
    /\ TagNameOf(q) = label
    /\ \A r \in BodyDescendants : TagNameOf(r) = label /\ r # q => Precedes(q, r)

\* C4: analyzeDomStructure().totalElements is the sum of the counts of the
\* records of getUniqueDomElementsWithMetadata(true) on the same tree, the
\* sum of the values of elementFrequency, and the number of descendants of
\* body.
C4_TotalIsSumOfCounts ==
  ret.op = "analyzeDomStructure" =>
    LET total == ret.outcome.value.totalElements
        records == GetUniqueDomElementsWithMetadata(TRUE)
        frequency == ret.outcome.value.elementFrequency
    IN /\ total = SumSeq([i \in DOMAIN records |-> records[i].count])
       /\ total = SumSeq([i \in DOMAIN frequency |-> frequency[i][2]])
       /\ total = Cardinality(BodyDescendants)

\* C4 witness: an analysis of a body with three descendants and two labels.
C4_Witness ==
  /\ ret.op = "analyzeDomStructure"
  /\ ret.outcome.value.totalElements = 3
  /\ ret.outcome.value.uniqueElements = 2

\* C5: when body has a descendant, mostCommon is the pair of a label and its
\* count, the count is the greatest of any label, and among the labels of
\* that count it is the one first seen in document order.
C5_MostCommonFirstSeen ==
  (ret.op = "analyzeDomStructure" /\ BodyDescendants # {}) =>
    LET most == ret.outcome.value.mostCommon IN
    /\ most # Null
    /\ most[1] \in BodyLabels
    /\ most[2] = Occurrences(most[1])
    /\ \A l \in BodyLabels :
         /\ Occurrences(l) <= most[2]
         /\ (Occurrences(l) = most[2] /\ l # most[1])
              => Precedes(FirstWith(most[1]), FirstWith(l))

\* C5 witness: two labels share the greatest count and the one that sorts
\* last as a string is seen first.
C5_Witness ==
  /\ ret.op = "analyzeDomStructure"
  /\ TagNames(BodyElements) = <<TagLowerB, TagBODY, TagB>>
  /\ ret.outcome.value.mostCommon = <<TagLowerB, 1>>

\* C6 as claimed: leastCommon has the least count of any label and, among
\* the labels of that count, is the one first seen in document order.
C6_LeastCommonFirstSeen ==
  (ret.op = "analyzeDomStructure" /\ BodyDescendants # {}) =>
    LET least == ret.outcome.value.leastCommon IN
    /\ least # Null
    /\ least[1] \in BodyLabels
    /\ least[2] = Occurrences(least[1])
    /\ \A l \in BodyLabels :
         /\ Occurrences(l) >= least[2]
         /\ (Occurrences(l) = least[2] /\ l # least[1])
              => Precedes(FirstWith(least[1]), FirstWith(l))

\* C6 amended: leastCommon has the least count of any label and, among the
\* labels of that count, is the one whose first occurrence comes last in
\* document order.
C6_LeastCommonLastSeen ==
  (ret.op = "analyzeDomStructure" /\ BodyDescendants # {}) =>
    LET least == ret.outcome.value.leastCommon IN
    /\ least # Null
    /\ least[1] \in BodyLabels
    /\ least[2] = Occurrences(least[1])
    /\ \A l \in BodyLabels :
         /\ Occurrences(l) >= least[2]
         /\ (Occurrences(l) = least[2] /\ l # least[1])
              => Precedes(FirstWith(l), FirstWith(least[1]))

\* C6 witness: three labels share the least count and the one seen last,
\* which sorts first as a string, is reported.
C6_Witness ==
  /\ ret.op = "analyzeDomStructure"
  /\ TagNames(BodyElements) = <<TagLowerB, TagBODY, TagB>>
  /\ ret.outcome.value.leastCommon = <<TagB, 1>>

\* C7: deepestNesting is the greatest number of parent links between a
\* descendant of body and body: 0 when body is absent or has no child, 1
\* when body has children and no grandchild.
C7_DeepestNesting ==
  ret.op = "analyzeDomStructure" =>
    LET deepest == ret.outcome.value.deepestNesting IN
    /\ \A q \in BodyDescendants : Len(q) - Len(DocumentBody.path) <= deepest
    /\ BodyDescendants # {}
         => \E q \in BodyDescendants : Len(q) - Len(DocumentBody.path) = deepest
    /\ BodyDescendants = {} => deepest = 0
    /\ (/\ BodyDescendants # {}
        /\ \A q \in BodyDescendants : Len(q) = Len(DocumentBody.path) + 1)
         => deepest = 1

\* C7 witness: body has a grandchild, and it is not in the last subtree of
\* body.
C7_Witness ==
  /\ ret.op = "analyzeDomStructure"
  /\ ret.outcome.value.deepestNesting = 2
  /\ ~DocumentBody.isNull
  /\ Len(NodeAt(doc, DocumentBody.path).children) = 2
  /\ NodeAt(doc, DocumentBody.path).children[2].children = <<>>

\* The lowercase transform of a label: the letters A..Z become a..z.
LowerCaseOf(s) ==
  [i \in DOMAIN s |->
     IF \E k \in 0..25 : s[i] = 65 + k THEN s[i] - 65 + 97 ELSE s[i]]

\* The container a call with these options works on, null when there is none.
TheContainer(options) ==
  IF options.hasContainer THEN options.container ELSE DocumentBody

\* C8: the result with toLowerCase true relates to the result of the same
\* call with toLowerCase false: every returned label is the lowercase
\* transform of a label of the uppercase-mode result, and the transform of
\* every label of the uppercase-mode result is returned.
C8_LowerCaseIsTransform ==
  (ret.op = "getUniqueDomElementsRobust" /\ ret.args.toLowerCase) =>
    LET upper == GetUniqueDomElementsRobust([ret.args EXCEPT !.toLowerCase = FALSE])
    IN /\ upper.threw = ret.outcome.threw
       /\ ~ret.outcome.threw =>
            /\ \A l \in Range(ret.outcome.value) :
                 \E u \in Range(upper.value) : l = LowerCaseOf(u)
            /\ \A u \in Range(upper.value) :
                 LowerCaseOf(u) \in Range(ret.outcome.value)

\* C8 witness: a lowercase call with the container included where two labels
\* of the uppercase-mode result have one transform.
C8_Witness ==
  /\ ret.op = "getUniqueDomElementsRobust"
  /\ ret.args.toLowerCase
  /\ ret.args.includeContainer
  /\ ~ret.outcome.threw
  /\ LowerCaseOf(TagBODY) \in Range(ret.outcome.value)
  /\ LET upper == GetUniqueDomElementsRobust([ret.args EXCEPT !.toLowerCase = FALSE])
     IN Len(upper.value) = Len(ret.outcome.value) + 1

\* C9: for a container that is not absent, the labels returned with
\* includeContainer true are those returned with includeContainer false
\* together with the container's own label (in the case the call asks for),
\* and no label is returned twice.
C9_IncludeContainerIsUnion ==
  (/\ ret.op = "getUniqueDomElementsRobust"
   /\ ret.args.includeContainer
   /\ ~TheContainer(ret.args).isNull) =>
    LET without == GetUniqueDomElementsRobust([ret.args EXCEPT !.includeContainer = FALSE])
        own == TagNameOf(TheContainer(ret.args).path)
        label == IF ret.args.toLowerCase THEN LowerCaseOf(own) ELSE own
    IN /\ ~ret.outcome.threw
       /\ ~without.threw
       /\ Range(ret.outcome.value) = Range(without.value) \cup {label}
       /\ NoDuplicates(ret.outcome.value)

\* C9 witness: the container is a B below body that has a B among its
\* descendants, and the unsorted result with the container is one B.
C9_Witness ==
  /\ ret.op = "getUniqueDomElementsRobust"
  /\ ret.args.includeContainer
  /\ ~ret.args.sortResults
  /\ ret.args.hasContainer
  /\ ~ret.args.container.isNull
  /\ Len(ret.args.container.path) = 2
  /\ TagNameOf(ret.args.container.path) = TagB
  /\ QuerySelectorAll(ret.args.container.path) # <<>>
  /\ ret.outcome.value = <<TagB>>

\* The attributes of an element as a mapping from name to value.
AttrMap(el) ==
  [n \in {a[1] : a \in Range(el.attributes)} |->
     (CHOOSE a \in Range(el.attributes) : a[1] = n)[2]]

\* The values of v, each at the place of its first occurrence.
FirstOccurrences(v) ==
  LET keep == {i \in DOMAIN v : \A j \in 1..(i - 1) : v[j] # v[i]}
  IN [k \in 1..Cardinality(keep) |->
        v[CHOOSE i \in keep : Cardinality({j \in keep : j < i}) = k - 1]]

\* The class tokens of an element, none when it has no class attribute.
ClassTokens(el) ==
  IF \E a \in Range(el.attributes) : a[1] = "class"
  THEN FirstOccurrences(AttrMap(el)["class"]) ELSE <<>>

\* C10: getUniqueDomElementsWithMetadata(true) returns one record per
\* distinct label among the descendants of body; its count is the number of
\* descendants with the label, and its first-instance reference, attributes
\* and classes are those of the first element with the label in document
\* order.
C10_MetadataOfFirstInstance ==
  (ret.op = "getUniqueDomElementsWithMetadata" /\ ret.args = TRUE) =>
    LET records == ret.outcome.value IN
    /\ {records[i].tagName : i \in DOMAIN records} = BodyLabels
    /\ \A i, j \in DOMAIN records : i # j => records[i].tagName # records[j].tagName
    /\ \A i \in DOMAIN records :
         LET r == records[i]
             first == FirstWith(r.tagName)
         IN /\ r.count = Occurrences(r.tagName)
            /\ r.firstInstance = Ref(first)
            /\ r.firstInstanceAttributes = AttrMap(NodeAt(doc, first))
            /\ r.firstInstanceClasses = ClassTokens(NodeAt(doc, first))

\* C10 witness: two B below body, the first of class "a" and the second of
\* class "b b": the record of B counts 2 and has the classes of the first.
C10_Witness ==
  /\ ret.op = "getUniqueDomElementsWithMetadata"
  /\ ret.args = TRUE
  /\ \E i \in DOMAIN ret.outcome.value :
       LET r == ret.outcome.value[i] IN
       /\ r.tagName = TagB
       /\ r.count = 2
       /\ r.firstInstanceClasses = <<"a">>
       /\ \E q \in BodyDescendants :
            /\ Precedes(r.firstInstance.path, q)
            /\ TagNameOf(q) = TagB
            /\ ClassTokens(NodeAt(doc, q)) = <<"b">>

\* C12 as claimed: elementFrequency maps each distinct label to its count
\* and lists the labels in the order they are first seen in document order.
C12_FrequencyFirstSeenOrder ==
  ret.op = "analyzeDomStructure" =>
    LET frequency == ret.outcome.value.elementFrequency IN
    /\ {frequency[i][1] : i \in DOMAIN frequency} = BodyLabels
    /\ \A i \in DOMAIN frequency : frequency[i][2] = Occurrences(frequency[i][1])
    /\ \A i, j \in DOMAIN frequency :
         i < j => Precedes(FirstWith(frequency[i][1]), FirstWith(frequency[j][1]))

\* C12 amended: elementFrequency maps each distinct label to its count and
\* lists the labels by descending count, the labels of one count in the
\* order they are first seen.
C12_FrequencyCountOrder ==
  ret.op = "analyzeDomStructure" =>
    LET frequency == ret.outcome.value.elementFrequency IN
    /\ {frequency[i][1] : i \in DOMAIN frequency} = BodyLabels
    /\ \A i \in DOMAIN frequency : frequency[i][2] = Occurrences(frequency[i][1])
    /\ \A i, j \in DOMAIN frequency :
         i < j =>
           \/ frequency[i][2] > frequency[j][2]
           \/ /\ frequency[i][2] = frequency[j][2]
              /\ Precedes(FirstWith(frequency[i][1]), FirstWith(frequency[j][1]))

\* C12 witness: the label seen first is the less frequent one and is listed
\* last.
C12_Witness ==
  /\ ret.op = "analyzeDomStructure"
  /\ TagNames(BodyElements) = <<TagLowerB, TagB, TagB>>
  /\ ret.outcome.value.elementFrequency = <<<<TagB, 2>>, <<TagLowerB, 1>>>>

\* C14: the getUniqueDomElements of js/scripts.js returns the unique
\* nodeNames of the elements within body: every returned name is that of a
\* descendant of body, the name of every descendant is returned, none twice;
\* BODY itself, an element outside body or a value that is no name is never
\* reported.
C14_ScriptsUniqueTagsOfBody ==
  ret.op = "scripts.getUniqueDomElements" =>
    /\ Range(ret.outcome.value) = BodyLabels
    /\ NoDuplicates(ret.outcome.value)

C13_SnapshotUnaffectedByMutation ==
  (/\ kept.held
   /\ kept.call.op = "getUniqueDomElementsWithMetadata"
   /\ kept.call.args = TRUE)
  => \A i \in DOMAIN kept.call.outcome.value :
       LET r == kept.call.outcome.value[i]
           first == NodeAt(kept.at, r.firstInstance.path)
       IN /\ ReadProperty(r.firstInstanceAttributes) = AttrMap(first)
          /\ ReadProperty(r.firstInstanceClasses) = ClassTokens(first)

\* C13 witness: the first B had the class "a" when the metadata was taken;
\* since then the document was changed and the element at its place has
\* another class or none, or is gone; the record still reads "a".
C13_Witness ==
  /\ kept.held
  /\ kept.edited
  /\ kept.call.op = "getUniqueDomElementsWithMetadata"
  /\ kept.call.args = TRUE
  /\ \E i \in DOMAIN kept.call.outcome.value :
       LET r == kept.call.outcome.value[i] IN
       /\ r.tagName = TagB
       /\ ReadProperty(r.firstInstanceClasses) = <<"a">>
       /\ \/ r.firstInstance.path \notin Range(AllPaths)
          \/ ClassTokens(NodeAt(doc, r.firstInstance.path)) # <<"a">>

====
